---- MODULE Spec2Model ----
(***************************************************************************)
(* A model of banking_core.py: BaseAccount (balance, observer list,        *)
(* deposit / withdraw with notification), the two interest strategies, the *)
(* Deposit / Withdraw commands and the TransactionManager with its undo    *)
(* history.                                                                *)
(*                                                                         *)
(* Amounts are whole numbers of currency units, on which Python's          *)
(* arithmetic is exact.  An interest computation balance * rate is         *)
(* explored only where its result is again a whole number (Exact).         *)
(*                                                                         *)
(* Every action is one call of a public method, run to completion (the     *)
(* program is single-threaded).  last, notes and pre record the call, the  *)
(* update() calls it made and the state it started from, so that what a    *)
(* call returned and changed can be stated of the state it leaves.         *)
(*                                                                         *)
(* Under Spec the balances stay within -100..MaxBalance, below the         *)
(* CurrentInterest threshold: SavingsInterest credits interest there,      *)
(* CurrentInterest only takes its "balance too low" branch.                *)
(***************************************************************************)
EXTENDS Integers, Sequences, FiniteSets, TLC

VARIABLES
    balance,            \* BaseAccount._balance, per account
    observers,          \* BaseAccount._observers, per account (a list)
    interest_strategy,  \* SavingsAccount/CurrentAccount.interest_strategy
    history,            \* TransactionManager._history (a list of commands)
    last,               \* the call made last: its name, arguments, return value
    notes,              \* the Customer.update calls made during the last call
    pre                 \* balance, observers and history as the last call found them

vars == <<balance, observers, interest_strategy, history, last, notes, pre>>

----------------------------------------------------------------------------
(* Bounds of the exploration *)

MaxBalance == 200
MaxHistory == 2

Accounts == {"S12345", "C67890"}
Customers == {"Alice", "Bob"}
Amounts == {-100, 0, 100}
OpeningBalances == {-100, 0}
\* the attach calls explored: both customers follow S12345, Alice also C67890
Subscriptions == {<<"S12345", "Alice">>, <<"S12345", "Bob">>, <<"C67890", "Alice">>}
\* the accounts as main_app.py constructs them
Strategies == [a \in Accounts |-> IF a = "S12345" THEN "Savings" ELSE "Current"]

Kinds == {"Deposit", "Withdraw"}
\* the commands the caller constructs
CommandAmounts == {0, 100}
Commands == [account : Accounts, kind : Kinds, amount : CommandAmounts]
NoCommand == [account |-> "none", kind |-> "none", amount |-> 0]

----------------------------------------------------------------------------
(* BaseAccount *)

\* (mutant) the membership check is missing
attach_always(obs, observer) == Append(obs, observer)

\* attach: append the observer unless it is already in the list
attach(obs, observer) ==
    IF \A i \in 1..Len(obs) : obs[i] # observer
    THEN Append(obs, observer)
    ELSE obs

\* list.remove: drop the first occurrence
RemoveFirst(obs, observer) ==
    LET idx == {i \in 1..Len(obs) : obs[i] = observer}
        k == CHOOSE i \in idx : \A j \in idx : i <= j
    IN  [i \in 1..(Len(obs) - 1) |-> IF i < k THEN obs[i] ELSE obs[i + 1]]

\* detach: remove the observer; a ValueError (not in the list) is swallowed
detach(obs, observer) ==
    IF \E i \in 1..Len(obs) : obs[i] = observer
    THEN RemoveFirst(obs, observer)
    ELSE obs

\* the text handed to update(): "Deposit of $A made." / "Withdrawal of $A made."
Message(kind, amount) == [kind |-> kind, amount |-> amount]

\* (mutant) only the first observer of the list is told
notify_first_only(obs, message) ==
    IF obs = << >> THEN << >> ELSE <<[to |-> obs[1], msg |-> message]>>

\* _notify_observers: one update(message) per entry of the list, in list order
notify_observers(obs, message) ==
    [i \in 1..Len(obs) |-> [to |-> obs[i], msg |-> message]]

\* (mutant) the amount check lets zero through
deposit_nonneg(bal, obs, amount) ==
    IF amount >= 0
    THEN [balance |-> bal + amount, ret |-> TRUE,
          notes |-> notify_observers(obs, Message("Deposit", amount))]
    ELSE [balance |-> bal, ret |-> FALSE, notes |-> << >>]

\* deposit: the new balance, the return value and the update calls made
deposit(bal, obs, amount) ==
    IF amount > 0
    THEN [balance |-> bal + amount, ret |-> TRUE,
          notes |-> notify_observers(obs, Message("Deposit", amount))]
    ELSE [balance |-> bal, ret |-> FALSE, notes |-> << >>]

\* (mutant) the funds check refuses to empty the account
withdraw_strict(bal, obs, amount) ==
    IF amount > 0 /\ bal > amount
    THEN [balance |-> bal - amount, ret |-> TRUE,
          notes |-> notify_observers(obs, Message("Withdrawal", amount))]
    ELSE [balance |-> bal, ret |-> FALSE, notes |-> << >>]

\* (mutant) the amount check of withdraw lets zero through
withdraw_nonneg(bal, obs, amount) ==
    IF amount >= 0 /\ bal >= amount
    THEN [balance |-> bal - amount, ret |-> TRUE,
          notes |-> notify_observers(obs, Message("Withdrawal", amount))]
    ELSE [balance |-> bal, ret |-> FALSE, notes |-> << >>]

\* (mutant) no funds check
withdraw_overdraw(bal, obs, amount) ==
    IF amount > 0
    THEN [balance |-> bal - amount, ret |-> TRUE,
          notes |-> notify_observers(obs, Message("Withdrawal", amount))]
    ELSE [balance |-> bal, ret |-> FALSE, notes |-> << >>]

\* withdraw
withdraw(bal, obs, amount) ==
    IF amount > 0 /\ bal >= amount
    THEN [balance |-> bal - amount, ret |-> TRUE,
          notes |-> notify_observers(obs, Message("Withdrawal", amount))]
    ELSE [balance |-> bal, ret |-> FALSE, notes |-> << >>]

----------------------------------------------------------------------------
(* Interest strategies *)

Threshold == 500
\* (mutant) the savings strategy uses the current account's rate
SavingsRate_low == <<5, 1000>>
\* (mutant) the eligibility test of the current strategy admits the threshold
CurrentInterest_calculate_inclusive(bal, obs) ==
    IF bal >= Threshold
    THEN deposit(bal, obs, (bal * 5) \div 1000)
    ELSE [balance |-> bal, ret |-> FALSE, notes |-> << >>]

SavingsRate == <<3, 100>>       \* 0.03
CurrentRate == <<5, 1000>>      \* 0.005

Exact(bal, rate) == (bal * rate[1]) % rate[2] = 0
Times(bal, rate) == (bal * rate[1]) \div rate[2]

\* (mutant) the savings strategy copies the current strategy's eligibility test
SavingsInterest_calculate_eligible(bal, obs) ==
    IF bal > 500
    THEN deposit(bal, obs, (bal * 3) \div 100)
    ELSE [balance |-> bal, ret |-> FALSE, notes |-> << >>]

\* SavingsInterest.calculate
SavingsInterest_calculate(bal, obs) ==
    LET interest == Times(bal, SavingsRate)
    IN  deposit(bal, obs, interest)

\* CurrentInterest.calculate
CurrentInterest_calculate(bal, obs) ==
    IF bal > Threshold
    THEN LET interest == Times(bal, CurrentRate)
         IN  deposit(bal, obs, interest)
    ELSE [balance |-> bal, ret |-> FALSE, notes |-> << >>]

\* the deposit a strategy attempts on this balance, if any
InterestExact(strategy, bal) ==
    CASE strategy = "Savings" -> Exact(bal, SavingsRate)
      [] strategy = "Current" -> bal > Threshold => Exact(bal, CurrentRate)
      [] OTHER -> TRUE

\* SavingsAccount/CurrentAccount.calculate_interest
calculate_interest(strategy, bal, obs) ==
    CASE strategy = "Savings" -> SavingsInterest_calculate(bal, obs)
      [] strategy = "Current" -> CurrentInterest_calculate(bal, obs)
      [] OTHER -> [balance |-> bal, ret |-> FALSE, notes |-> << >>]

----------------------------------------------------------------------------
(* Commands *)

\* (mutant) undoing a deposit deposits again
DepositCommand_undo_again(cmd, bal, obs) == deposit(bal, obs, cmd.amount)
\* (mutant) undoing a withdrawal restores the balance behind the account's back
WithdrawCommand_undo_silent(cmd, bal, obs) ==
    [balance |-> bal + cmd.amount, ret |-> TRUE, notes |-> << >>]

\* (mutant) the undo of a withdrawal reports success and does nothing
WithdrawCommand_undo_skip(cmd, bal, obs) ==
    [balance |-> bal, ret |-> TRUE, notes |-> << >>]

DepositCommand_execute(cmd, bal, obs) == deposit(bal, obs, cmd.amount)
DepositCommand_undo(cmd, bal, obs) == withdraw(bal, obs, cmd.amount)
WithdrawCommand_execute(cmd, bal, obs) == withdraw(bal, obs, cmd.amount)
WithdrawCommand_undo(cmd, bal, obs) == deposit(bal, obs, cmd.amount)

\* (mutant) every command acts on the account the first command was built for
Command_account_shared(cmd) == "S12345"

\* self._account: the account a command was constructed with
Command_account(cmd) == cmd.account

\* command.execute() / command.undo(), dispatched on the command's class
Command_execute(cmd, bal, obs) ==
    IF cmd.kind = "Deposit"
    THEN DepositCommand_execute(cmd, bal, obs)
    ELSE WithdrawCommand_execute(cmd, bal, obs)

Command_undo(cmd, bal, obs) ==
    IF cmd.kind = "Deposit"
    THEN DepositCommand_undo(cmd, bal, obs)
    ELSE WithdrawCommand_undo(cmd, bal, obs)

----------------------------------------------------------------------------
(* TransactionManager *)

PyBool(b) == IF b THEN "True" ELSE "False"

\* (mutant) the command is recorded whether or not it executed
execute_history_always(hist, cmd, executed) == Append(hist, cmd)

\* execute_transaction: the history afterwards and the return value
\* (mutant) a command already on top of the history is not appended again
execute_history_once(hist, cmd, executed) ==
    IF executed /\ (hist = << >> \/ hist[Len(hist)] # cmd)
    THEN Append(hist, cmd)
    ELSE hist

execute_history(hist, cmd, executed) ==
    IF executed THEN Append(hist, cmd) ELSE hist
execute_return(executed) ==
    IF executed THEN "True" ELSE "False"

\* (mutant) the oldest command is undone instead of the newest
undo_popped_first(hist) == hist[1]
\* (mutant) a command whose undo failed is put back
undo_history_keep(hist, undone) ==
    IF undone THEN SubSeq(hist, 1, Len(hist) - 1) ELSE hist
\* (mutant) the empty history is not reported
undo_return_always(hist, undone) == "True"

\* (mutant) the undone command is restored to the history
undo_history_redo(hist, undone) == hist

\* undo_last_transaction on a non-empty history: the command popped, the
\* history afterwards and the return value
undo_popped(hist) == hist[Len(hist)]
undo_history(hist, undone) == SubSeq(hist, 1, Len(hist) - 1)
undo_return(hist, undone) == IF hist = << >> THEN "False" ELSE "True"

----------------------------------------------------------------------------
(* State machine *)

\* a call: inner is what the deposit / withdraw / execute / undo it delegates
\* to returned, ret what the call itself returned; after_execute says that an
\* undo_last_transaction directly followed a successful execute_transaction
\* observer is the argument of attach / detach.  streak follows one pattern of
\* calls: phase 1 after a successful execute_transaction, 2 when the same
\* command is successfully executed again directly after it, 3 and 4 after the
\* first and second undo_last_transaction directly after that; base is the
\* balance of the command's account before the first of these calls.
NoStreak == [phase |-> 0, base |-> 0]
Call(op, a, amount, cmd, inner, ret) ==
    [op |-> op, account |-> a, amount |-> amount, cmd |-> cmd,
     inner |-> inner, ret |-> ret, after_execute |-> FALSE,
     observer |-> "none", streak |-> NoStreak]

\* the streak after execute_transaction(cmd), which found balance bal
ExecuteStreak(cmd, executed, bal) ==
    IF ~executed THEN NoStreak
    ELSE IF /\ last.op = "execute_transaction"
            /\ last.cmd = cmd
            /\ last.streak.phase = 1
         THEN [phase |-> 2, base |-> last.streak.base]
         ELSE [phase |-> 1, base |-> bal]

\* the streak after undo_last_transaction on a non-empty history
UndoStreak ==
    IF last.streak.phase \in {2, 3}
    THEN [phase |-> last.streak.phase + 1, base |-> last.streak.base]
    ELSE NoStreak

Snapshot == [balance |-> balance, observers |-> observers, history |-> history]

Init ==
    /\ balance \in [Accounts -> OpeningBalances]
    /\ observers = [a \in Accounts |-> << >>]
    /\ interest_strategy = Strategies
    /\ history = << >>
    /\ last = Call("init", "none", 0, NoCommand, "None", "None")
    /\ notes = << >>
    /\ pre = Snapshot

Attach(a, o) ==
    /\ observers' = [observers EXCEPT ![a] = attach(@, o)]
    /\ last' = [Call("attach", a, 0, NoCommand, "None", "None")
                EXCEPT !.observer = o]
    /\ notes' = << >>
    /\ pre' = Snapshot
    /\ UNCHANGED <<balance, interest_strategy, history>>

Detach(a, o) ==
    /\ observers' = [observers EXCEPT ![a] = detach(@, o)]
    /\ last' = [Call("detach", a, 0, NoCommand, "None", "None")
                EXCEPT !.observer = o]
    /\ notes' = << >>
    /\ pre' = Snapshot
    /\ UNCHANGED <<balance, interest_strategy, history>>

\* the model explores a call only while the balance it leaves is within cap
\* and the history within depth
DepositWithin(a, amount, cap) ==
    LET r == deposit(balance[a], observers[a], amount)
    IN  /\ r.balance <= cap
        /\ balance' = [balance EXCEPT ![a] = r.balance]
        /\ last' = Call("deposit", a, amount, NoCommand, "None", PyBool(r.ret))
        /\ notes' = r.notes
        /\ pre' = Snapshot
        /\ UNCHANGED <<observers, interest_strategy, history>>

Deposit(a, amount) == DepositWithin(a, amount, MaxBalance)

Withdraw(a, amount) ==
    LET r == withdraw(balance[a], observers[a], amount)
    IN  /\ balance' = [balance EXCEPT ![a] = r.balance]
        /\ last' = Call("withdraw", a, amount, NoCommand, "None", PyBool(r.ret))
        /\ notes' = r.notes
        /\ pre' = Snapshot
        /\ UNCHANGED <<observers, interest_strategy, history>>

CalculateInterestWithin(a, cap) ==
    /\ InterestExact(interest_strategy[a], balance[a])
    /\ LET r == calculate_interest(interest_strategy[a], balance[a], observers[a])
       IN  /\ r.balance <= cap
           /\ balance' = [balance EXCEPT ![a] = r.balance]
           /\ last' = Call("calculate_interest", a, r.balance - balance[a],
                           NoCommand, PyBool(r.ret), "None")
           /\ notes' = r.notes
    /\ pre' = Snapshot
    /\ UNCHANGED <<observers, interest_strategy, history>>

CalculateInterest(a) == CalculateInterestWithin(a, MaxBalance)

ExecuteTransactionWithin(cmd, cap, depth) ==
    LET a == Command_account(cmd)
        r == Command_execute(cmd, balance[a], observers[a])
    IN  /\ r.balance <= cap
        /\ r.ret => Len(history) < depth
        /\ balance' = [balance EXCEPT ![a] = r.balance]
        /\ history' = execute_history(history, cmd, r.ret)
        /\ last' = [Call("execute_transaction", a, cmd.amount, cmd,
                         PyBool(r.ret), execute_return(r.ret))
                    EXCEPT !.streak = ExecuteStreak(cmd, r.ret, balance[a])]
        /\ notes' = r.notes
        /\ pre' = Snapshot
        /\ UNCHANGED <<observers, interest_strategy>>

ExecuteTransaction(cmd) == ExecuteTransactionWithin(cmd, MaxBalance, MaxHistory)

UndoLastTransactionWithin(cap) ==
    /\ pre' = Snapshot
    /\ IF history = << >>
       THEN /\ last' = Call("undo_last_transaction", "none", 0, NoCommand,
                            "None", undo_return(history, FALSE))
            /\ notes' = << >>
            /\ UNCHANGED <<balance, observers, interest_strategy, history>>
       ELSE LET last_command == undo_popped(history)
                a == Command_account(last_command)
                r == Command_undo(last_command, balance[a], observers[a])
            IN  /\ r.balance <= cap
                /\ balance' = [balance EXCEPT ![a] = r.balance]
                /\ history' = undo_history(history, r.ret)
                /\ last' = [Call("undo_last_transaction", a, last_command.amount,
                                 last_command, PyBool(r.ret),
                                 undo_return(history, r.ret))
                            EXCEPT !.after_execute =
                                last.op = "execute_transaction" /\ last.ret = "True",
                                   !.streak = UndoStreak]
                /\ notes' = r.notes
                /\ UNCHANGED <<observers, interest_strategy>>

UndoLastTransaction == UndoLastTransactionWithin(MaxBalance)

Next ==
    \/ \E s \in Subscriptions : Attach(s[1], s[2])
    \/ \E a \in Accounts, o \in Customers : Detach(a, o)
    \/ \E a \in Accounts, amount \in Amounts : Deposit(a, amount)
    \/ \E a \in Accounts, amount \in Amounts : Withdraw(a, amount)
    \/ \E a \in Accounts : CalculateInterest(a)
    \/ \E cmd \in Commands : ExecuteTransaction(cmd)
    \/ UndoLastTransaction

Spec == Init /\ [][Next]_vars

----------------------------------------------------------------------------
(* Accounts changed only through one TransactionManager: no direct deposit or *)
(* withdraw and no interest.  One account opens with balance 0, the other     *)
(* with a negative one (BaseAccount.__init__ accepts any balance).            *)

LedgerOpening == [a \in Accounts |-> IF a = "S12345" THEN 0 ELSE -100]

InitLedger ==
    /\ balance = LedgerOpening
    /\ observers = [a \in Accounts |-> << >>]
    /\ interest_strategy = Strategies
    /\ history = << >>
    /\ last = Call("init", "none", 0, NoCommand, "None", "None")
    /\ notes = << >>
    /\ pre = Snapshot

NextLedger ==
    \/ \E s \in Subscriptions : Attach(s[1], s[2])
    \/ \E a \in Accounts, o \in Customers : Detach(a, o)
    \/ \E cmd \in Commands : ExecuteTransaction(cmd)
    \/ UndoLastTransaction

SpecLedger == InitLedger /\ [][NextLedger]_vars

----------------------------------------------------------------------------
(* The calls main_app.py makes, in any order and number, on its two accounts: *)
(* S12345 opened with 500.00 and SavingsInterest, C67890 opened with one of    *)
(* several balances around the CurrentInterest threshold, with CurrentInterest *)
(* or with no strategy.                                                        *)

MaxMainBalance == 2100
MainOpenings == {400, 500, 600, 2000}
MainCommands ==
    {[account |-> "S12345", kind |-> "Deposit", amount |-> 100],
     [account |-> "S12345", kind |-> "Withdraw", amount |-> 50]}

InitMain ==
    /\ \E b \in MainOpenings :
          balance = [a \in Accounts |-> IF a = "S12345" THEN 500 ELSE b]
    /\ observers = [a \in Accounts |-> << >>]
    /\ \E c \in {"Current", "None"} :
          interest_strategy = [a \in Accounts |-> IF a = "S12345" THEN "Savings" ELSE c]
    /\ history = << >>
    /\ last = Call("init", "none", 0, NoCommand, "None", "None")
    /\ notes = << >>
    /\ pre = Snapshot

NextMain ==
    \/ \E s \in Subscriptions : Attach(s[1], s[2])
    \/ \E a \in Accounts : CalculateInterestWithin(a, MaxMainBalance)
    \/ \E cmd \in MainCommands :
          ExecuteTransactionWithin(cmd, MaxMainBalance, MaxHistory)
    \/ UndoLastTransactionWithin(MaxMainBalance)

SpecMain == InitMain /\ [][NextMain]_vars

----------------------------------------------------------------------------
(* Properties *)

Range(seq) == {seq[i] : i \in 1..Len(seq)}
Front(seq) == SubSeq(seq, 1, Len(seq) - 1)
IsUndo == last.op = "undo_last_transaction"
IsExecute == last.op = "execute_transaction"
\* the number of update calls the last call made on customer o
Delivered(o) == Cardinality({i \in 1..Len(notes) : notes[i].to = o})

\* C1: on a non-empty history undo_last_transaction pops the most recent
\* command, calls its undo() and returns what that undo() returned: success
\* when the inverse deposit / withdraw succeeded, failure when it was rejected.
C1_UndoReturnsUndoResult ==
    (IsUndo /\ pre.history # << >>) =>
        /\ last.cmd = pre.history[Len(pre.history)]
        /\ history = Front(pre.history)
        /\ last.ret = last.inner

\* C2: execute_transaction returns exactly what command.execute() returned;
\* when it succeeded the command is the new last element of the history, which
\* grew by exactly one; when it failed (amount <= 0 or insufficient funds) the
\* history and every balance are unchanged.
C2_Submit ==
    IsExecute =>
        /\ last.ret = last.inner
        /\ last.ret \in {"True", "False"}
        /\ last.ret = "True" =>
              /\ history = Append(pre.history, last.cmd)
              /\ Len(history) = Len(pre.history) + 1
        /\ last.ret = "False" =>
              /\ history = pre.history
              /\ balance = pre.balance
        /\ last.ret = "False" <=>
              \/ last.cmd.amount <= 0
              \/ /\ last.cmd.kind = "Withdraw"
                 /\ pre.balance[last.cmd.account] < last.cmd.amount

C2_Witness ==
    /\ IsExecute
    /\ last.ret = "True"
    /\ Len(history) = 2
    /\ history[2] = last.cmd
    /\ history[1] # last.cmd

\* C3: the history is a stack.  A successful execute_transaction pushes its
\* command, a failed one and every call other than execute / undo leave the
\* history alone, and undo_last_transaction on a non-empty history removes
\* exactly the last entry and invokes undo() on that command and on no other:
\* only that command's account can change, by that command's amount.
C3_Lifo ==
    /\ Len(history) <= MaxHistory
    /\ (IsExecute /\ last.inner = "True") => history = Append(pre.history, last.cmd)
    /\ (IsExecute /\ last.inner = "False") => history = pre.history
    /\ (~IsExecute /\ ~IsUndo) => history = pre.history
    /\ (IsUndo /\ pre.history # << >>) =>
          /\ Len(history) = Len(pre.history) - 1
          /\ pre.history = Append(history, last.cmd)
          /\ \A a \in Accounts \ {last.cmd.account} : balance[a] = pre.balance[a]
          /\ LET a == last.cmd.account
                 d == balance[a] - pre.balance[a]
             IN  /\ last.cmd.kind = "Deposit" => d \in {0, -last.cmd.amount}
                 /\ last.cmd.kind = "Withdraw" => d = last.cmd.amount
                 /\ last.inner = "True" <=> d # 0

C3_Witness ==
    /\ IsUndo
    /\ Len(pre.history) = 2
    /\ pre.history[1] # pre.history[2]
    /\ history = <<pre.history[1]>>
    /\ last.cmd = pre.history[2]

\* C4 as stated, for any balance: an undo_last_transaction issued directly
\* after a successful execute_transaction reverses it successfully and leaves
\* every balance and the history as they were before the execute.
C4_InverseAnyBalance ==
    [][(IsExecute /\ last.ret = "True" /\ last'.op = "undo_last_transaction") =>
          /\ last'.inner = "True"
          /\ balance' = pre.balance
          /\ history' = pre.history]_vars

\* C4 amended: the same for a command whose account held a balance >= 0
\* before the execute.
C4_InverseNonNegative ==
    [][(/\ IsExecute
        /\ last.ret = "True"
        /\ pre.balance[last.account] >= 0
        /\ last'.op = "undo_last_transaction") =>
          /\ last'.cmd = last.cmd
          /\ last'.inner = "True"
          /\ balance' = pre.balance
          /\ history' = pre.history]_vars

C4_Witness ==
    /\ IsUndo
    /\ last.after_execute
    /\ last.inner = "True"
    /\ last.cmd.kind = "Deposit"
    /\ balance[last.account] >= 0
    /\ history # << >>

\* C5: when undo_last_transaction pops a command whose inverse is rejected (a
\* DepositCommand whose amount exceeds the balance), no balance changes, no
\* notification is sent, the popped command is not put back and the earlier
\* entries stay in place and in order.
C5_FailedUndo ==
    (IsUndo /\ pre.history # << >> /\ last.inner = "False") =>
        /\ last.cmd.kind = "Deposit"
        /\ last.cmd.amount > pre.balance[last.cmd.account]
        /\ balance = pre.balance
        /\ notes = << >>
        /\ history = Front(pre.history)
        /\ observers = pre.observers

C5_Witness ==
    /\ IsUndo
    /\ last.inner = "False"
    /\ Len(pre.history) = 2
    /\ history = <<pre.history[1]>>
    /\ observers[last.account] # << >>

\* C6: undo_last_transaction on an empty history returns False, leaves the
\* history empty and every balance and observer list unchanged, and notifies
\* nobody.
C6_UndoEmpty ==
    (IsUndo /\ pre.history = << >>) =>
        /\ last.ret = "False"
        /\ last.cmd = NoCommand
        /\ history = << >>
        /\ balance = pre.balance
        /\ observers = pre.observers
        /\ notes = << >>

C6_Witness ==
    /\ IsUndo
    /\ pre.history = << >>
    /\ last.ret = "False"
    /\ \E a \in Accounts : observers[a] # << >> /\ balance[a] > 0

\* C7: for a balance B and an amount A > 0, deposit(A) returns True and leaves
\* B + A; withdraw(A) with A <= B returns True and leaves B - A; withdraw(A)
\* with A > B returns False and leaves B.
C7_DepositWithdraw ==
    LET a == last.account
        A == last.amount
        B == pre.balance[a]
    IN  /\ (last.op = "deposit" /\ A > 0) =>
              last.ret = "True" /\ balance[a] = B + A
        /\ (last.op = "withdraw" /\ A > 0 /\ A <= B) =>
              last.ret = "True" /\ balance[a] = B - A
        /\ (last.op = "withdraw" /\ A > 0 /\ A > B) =>
              last.ret = "False" /\ balance[a] = B

C7_Witness ==
    /\ last.op = "withdraw"
    /\ last.amount > 0
    /\ last.amount = pre.balance[last.account]
    /\ last.ret = "True"
    /\ balance[last.account] = 0

\* C8: deposit(A) or withdraw(A) with A <= 0, and withdraw(A) with A above the
\* balance, return False, leave every balance and observer list unchanged and
\* make no update call.
C8_Rejected ==
    LET a == last.account
        A == last.amount
    IN  (/\ last.op \in {"deposit", "withdraw"}
         /\ A <= 0 \/ (last.op = "withdraw" /\ A > pre.balance[a])) =>
            /\ last.ret = "False"
            /\ balance = pre.balance
            /\ observers = pre.observers
            /\ notes = << >>

C8_Witness ==
    /\ last.op = "deposit"
    /\ last.amount = 0
    /\ last.ret = "False"
    /\ Len(observers[last.account]) = 2

\* the accounts whose balance the last call changed, and whether its deposit
\* or withdraw reported success
Changed == {a \in Accounts : balance[a] # pre.balance[a]}
Succeeded ==
    \/ last.op \in {"deposit", "withdraw"} /\ last.ret = "True"
    \/ /\ last.op \in {"execute_transaction", "undo_last_transaction",
                       "calculate_interest"}
       /\ last.inner = "True"

\* C9: every call that changes a balance (a successful deposit or withdraw,
\* made directly, by a command's execute or undo, or by an interest strategy)
\* makes exactly one update call on each customer attached to that account and
\* none on any other customer, each describing the change; a call that changes
\* no balance makes no update call.
C9_FanOut ==
    /\ Succeeded <=> Changed # {}
    /\ Changed # {} => Changed = {last.account}
    /\ \A o \in Customers :
          Delivered(o) =
              Cardinality({a \in Changed : o \in Range(pre.observers[a])})
    /\ \A i \in 1..Len(notes) :
          LET d == balance[last.account] - pre.balance[last.account]
          IN  notes[i].msg = IF d > 0 THEN Message("Deposit", d)
                             ELSE Message("Withdrawal", -d)

C9_Witness ==
    /\ last.op = "calculate_interest"
    /\ last.inner = "True"
    /\ Range(observers[last.account]) = {"Alice", "Bob"}
    /\ Len(notes) = 2
    /\ observers["C67890"] = << >>

\* one update call per customer attached to the command's account, each with
\* the message of this kind for the command's amount
Announced(kind) ==
    LET a == last.cmd.account
    IN  /\ \A o \in Customers :
              Delivered(o) = IF o \in Range(observers[a]) THEN 1 ELSE 0
        /\ \A i \in 1..Len(notes) :
              notes[i].msg = Message(kind, last.cmd.amount)

\* C10: an undo_last_transaction whose reversal succeeds makes exactly one
\* update call on each customer attached to the reversed command's account,
\* announcing the inverse operation with the command's amount, just as the
\* successful execute_transaction announced the forward one.
C10_UndoNotifies ==
    /\ (IsUndo /\ last.inner = "True") =>
          Announced(IF last.cmd.kind = "Deposit" THEN "Withdrawal" ELSE "Deposit")
    /\ (IsExecute /\ last.inner = "True") =>
          Announced(IF last.cmd.kind = "Deposit" THEN "Deposit" ELSE "Withdrawal")

C10_Witness ==
    /\ IsUndo
    /\ last.inner = "True"
    /\ last.cmd.kind = "Withdraw"
    /\ Len(notes) = 2
    /\ notes[1].to # notes[2].to

NoDuplicates(seq) == \A i, j \in 1..Len(seq) : seq[i] = seq[j] => i = j
\* seq without its entries equal to x, in order
RECURSIVE Without(_, _)
Without(seq, x) ==
    IF seq = << >> THEN << >>
    ELSE IF seq[1] = x THEN Without(Tail(seq), x)
         ELSE <<seq[1]>> \o Without(Tail(seq), x)

\* C11: no observer list ever holds a duplicate (so no call makes more than
\* one update call on a customer); attaching an attached observer and
\* detaching one that is not attached leave every list unchanged and raise
\* nothing; a real attach appends, a real detach removes just that observer;
\* attach and detach change no balance and no history and notify nobody.
C11_AttachDetach ==
    /\ \A a \in Accounts : NoDuplicates(observers[a])
    /\ \A o \in Customers : Delivered(o) <= 1
    /\ last.op \in {"attach", "detach"} =>
          LET a == last.account
              o == last.observer
              was == o \in Range(pre.observers[a])
          IN  /\ last.ret = "None"
              /\ balance = pre.balance
              /\ history = pre.history
              /\ notes = << >>
              /\ \A b \in Accounts \ {a} : observers[b] = pre.observers[b]
              /\ (last.op = "attach" /\ was) => observers = pre.observers
              /\ (last.op = "attach" /\ ~was) =>
                    observers[a] = Append(pre.observers[a], o)
              /\ (last.op = "detach" /\ ~was) => observers = pre.observers
              /\ (last.op = "detach" /\ was) =>
                    observers[a] = Without(pre.observers[a], o)

C11_Witness ==
    /\ last.op = "attach"
    /\ last.observer \in Range(pre.observers[last.account])
    /\ Len(observers[last.account]) = 2
    /\ observers[last.account][1] = last.observer

\* C12 as stated: calculate_interest with SavingsInterest on a balance B leaves
\* B + B * 0.03 and makes one update call on every attached customer,
\* whatever B is (B = 0 included).
C12_SavingsAlways ==
    (last.op = "calculate_interest" /\ interest_strategy[last.account] = "Savings") =>
        LET a == last.account
            B == pre.balance[a]
        IN  /\ (balance[a] - B) * 100 = B * 3
            /\ \A o \in Range(observers[a]) : Delivered(o) = 1

\* C12 amended: for B > 0 the balance becomes B + B * 0.03 (the interest taken
\* from the balance before the credit) and every attached customer gets one
\* update call announcing that deposit; for B <= 0 the interest is <= 0, the
\* deposit is rejected, the balance stays B and nobody is notified.
C12_SavingsPositive ==
    (last.op = "calculate_interest" /\ interest_strategy[last.account] = "Savings") =>
        LET a == last.account
            B == pre.balance[a]
            d == balance[a] - B
        IN  /\ last.ret = "None"
            /\ \A b \in Accounts \ {a} : balance[b] = pre.balance[b]
            /\ B > 0 =>
                  /\ d * 100 = B * 3
                  /\ last.inner = "True"
                  /\ \A o \in Customers :
                        Delivered(o) = IF o \in Range(observers[a]) THEN 1 ELSE 0
                  /\ \A i \in 1..Len(notes) : notes[i].msg = Message("Deposit", d)
            /\ B <= 0 =>
                  /\ d = 0
                  /\ last.inner = "False"
                  /\ notes = << >>

C12_Witness ==
    /\ last.op = "calculate_interest"
    /\ interest_strategy[last.account] = "Savings"
    /\ pre.balance[last.account] = 100
    /\ balance[last.account] = 103
    /\ Len(notes) = 2

\* C13: calculate_interest with CurrentInterest on a balance B credits
\* B * 0.005 and makes one update call on each attached customer exactly when
\* B > 500; for B <= 500 (B = 500 included) it changes no balance and notifies
\* nobody; an account constructed without a strategy is not changed either.
C13_CurrentEligibility ==
    last.op = "calculate_interest" =>
        LET a == last.account
            B == pre.balance[a]
            d == balance[a] - B
        IN  /\ \A b \in Accounts \ {a} : balance[b] = pre.balance[b]
            /\ (interest_strategy[a] = "Current" /\ B > 500) =>
                  /\ d * 1000 = B * 5
                  /\ last.inner = "True"
                  /\ \A o \in Customers :
                        Delivered(o) = IF o \in Range(observers[a]) THEN 1 ELSE 0
                  /\ \A i \in 1..Len(notes) : notes[i].msg = Message("Deposit", d)
            /\ (interest_strategy[a] = "Current" /\ B <= 500) =>
                  d = 0 /\ notes = << >>
            /\ interest_strategy[a] = "None" =>
                  d = 0 /\ notes = << >>

C13_Witness ==
    /\ last.op = "calculate_interest"
    /\ interest_strategy[last.account] = "Current"
    /\ pre.balance[last.account] = 600
    /\ balance[last.account] = 603
    /\ Len(notes) = 1

\* the commands of main_app.py and the stages its calls on S12345 go through
MainDeposit == [account |-> "S12345", kind |-> "Deposit", amount |-> 100]
MainWithdraw == [account |-> "S12345", kind |-> "Withdraw", amount |-> 50]
Found(bal, hist) == pre.balance["S12345"] = bal /\ pre.history = hist
Left(bal, hist) == balance["S12345"] = bal /\ history = hist

\* C14: from balance 500.00 and an empty history, executing the deposit of
\* 100.00 succeeds and leaves 600.00 and a history of size 1; from there
\* executing the withdrawal of 50.00 succeeds and leaves 550.00 and size 2;
\* from there undo_last_transaction leaves 600.00 and size 1; from there
\* calculate_interest with SavingsInterest credits 18.00 and leaves 618.00,
\* the history still of size 1.
C14_Scenario ==
    /\ (IsExecute /\ last.cmd = MainDeposit /\ Found(500, << >>)) =>
          last.ret = "True" /\ Left(600, <<MainDeposit>>)
    /\ (IsExecute /\ last.cmd = MainWithdraw /\ Found(600, <<MainDeposit>>)) =>
          last.ret = "True" /\ Left(550, <<MainDeposit, MainWithdraw>>)
    /\ (IsUndo /\ Found(550, <<MainDeposit, MainWithdraw>>)) =>
          /\ last.cmd = MainWithdraw
          /\ last.inner = "True"
          /\ Left(600, <<MainDeposit>>)
    /\ (/\ last.op = "calculate_interest"
        /\ last.account = "S12345"
        /\ Found(600, <<MainDeposit>>)) =>
          /\ last.amount = 18
          /\ Left(618, <<MainDeposit>>)
          /\ Len(history) = 1

C14_Witness ==
    /\ last.op = "calculate_interest"
    /\ last.account = "S12345"
    /\ Found(600, <<MainDeposit>>)
    /\ Left(618, <<MainDeposit>>)
    /\ Len(notes) = 2

\* the signed effect of one execution of a command on its account's balance
Effect(cmd) == IF cmd.kind = "Deposit" THEN cmd.amount ELSE 0 - cmd.amount

\* what a streak "execute cmd, execute cmd, undo, undo" of adjacent calls, both
\* executions successful, has left after its second, third and fourth call
TwiceThenUndone ==
    LET a == last.account
        base == last.streak.base
        n == Len(history)
    IN  /\ last.streak.phase = 2 =>
              /\ balance[a] = base + 2 * Effect(last.cmd)
              /\ n >= 2
              /\ history[n] = last.cmd
              /\ history[n - 1] = last.cmd
              /\ n = Len(pre.history) + 1
        /\ last.streak.phase = 3 =>
              /\ balance[a] = base + Effect(last.cmd)
              /\ n >= 1
              /\ history[n] = last.cmd
        /\ last.streak.phase = 4 => balance[a] = base

\* C15 (as stated): the same command executed twice in a row, both times with
\* success, has its effect applied twice and two entries in the history, and
\* the two following undo_last_transaction calls each reverse the amount once,
\* the second one leaving the balance held before the first execution.
C15_TwiceAnyBalance == TwiceThenUndone

\* C15 (amended): the same, for a balance before the first execution >= 0.
C15_TwiceNonNegative == last.streak.base >= 0 => TwiceThenUndone

C15_Witness ==
    /\ last.streak.phase = 4
    /\ last.streak.base >= 0
    /\ last.cmd.kind = "Deposit"
    /\ balance[last.account] = last.streak.base
    /\ Len(notes) >= 1

\* C16: there is no redo.  The history only ever grows by the command of a
\* successful execute_transaction, appended at its end; undo_last_transaction
\* on a non-empty history removes the last command and applies its inverse or
\* nothing, never its forward effect; on an empty history it changes nothing;
\* no other call touches the history.  So a popped command is back in the
\* history only after the caller successfully executes it again.
C16_NoRedo ==
    /\ \A i \in 1..Len(history) :
          IF i <= Len(pre.history)
          THEN history[i] = pre.history[i]
          ELSE /\ IsExecute
               /\ last.ret = "True"
               /\ i = Len(pre.history) + 1
               /\ history[i] = last.cmd
    /\ IsUndo =>
          IF pre.history = << >>
          THEN /\ history = << >>
               /\ balance = pre.balance
               /\ notes = << >>
          ELSE /\ history = Front(pre.history)
               /\ last.cmd = pre.history[Len(pre.history)]
               /\ balance[last.account] - pre.balance[last.account]
                     \in {0, 0 - Effect(last.cmd)}
    /\ last.op \notin {"execute_transaction", "undo_last_transaction"} =>
          history = pre.history

\* two undos in a row: the second one found the first popped command neither
\* re-executed nor back in the history
C16_Witness ==
    /\ IsUndo
    /\ last.streak.phase = 4
    /\ Len(pre.history) = 1
    /\ history = << >>

\* C17: no call takes a balance that is >= 0 below 0, so an account opened
\* with a balance >= 0 has a balance >= 0 after any sequence of deposit,
\* withdraw, execute_transaction, undo_last_transaction (successful or failed)
\* and calculate_interest calls.
C17_NonNegative ==
    \A a \in Accounts : pre.balance[a] >= 0 => balance[a] >= 0

\* an undo that would have overdrawn the account was rejected
C17_Witness ==
    /\ IsUndo
    /\ last.cmd.kind = "Deposit"
    /\ last.inner = "False"
    /\ pre.balance[last.account] >= 0
    /\ pre.balance[last.account] < last.cmd.amount
    /\ balance[last.account] = pre.balance[last.account]

\* the sum of the effects of the commands of hist that are bound to account a
RECURSIVE Net(_, _)
Net(hist, a) ==
    IF hist = << >> THEN 0
    ELSE Net(Front(hist), a)
           + (IF hist[Len(hist)].account = a THEN Effect(hist[Len(hist)]) ELSE 0)

\* account a's balance is its opening balance plus the deposits and minus the
\* withdrawals held in the history, and an undo_last_transaction that popped a
\* command of a reversed it successfully
Ledgered(a) ==
    /\ balance[a] = LedgerOpening[a] + Net(history, a)
    /\ (IsUndo /\ pre.history # << >> /\ last.account = a) =>
          /\ last.inner = "True"
          /\ balance[a] = pre.balance[a] - Effect(last.cmd)

\* C18 (as stated): when accounts are changed only by execute_transaction and
\* undo_last_transaction of one manager, every account's balance is its
\* opening balance plus the amounts of the DepositCommands minus the amounts of
\* the WithdrawCommands in the history, and every undo on a non-empty history
\* succeeds in its inverse deposit / withdraw and restores the balance held
\* before the command was executed.
C18_LedgerAnyOpening == \A a \in Accounts : Ledgered(a)

\* C18 (amended): the same, for the accounts opened with a balance >= 0.
C18_LedgerNonNegative ==
    \A a \in Accounts : LedgerOpening[a] >= 0 => Ledgered(a)

C18_Witness ==
    /\ IsUndo
    /\ Len(pre.history) = 2
    /\ LedgerOpening[last.account] >= 0
    /\ last.inner = "True"
    /\ last.cmd.kind = "Deposit"
    /\ balance[last.account] = LedgerOpening[last.account] + Net(history, last.account)
    /\ Net(history, last.account) # 0

\* C19: every command in the history has an amount > 0; hence the undo of a
\* WithdrawCommand popped from the history always succeeds and raises the
\* balance of its account by its amount, whatever the balance has become, and
\* an undo that fails is the undo of a DepositCommand.
C19_PositiveAmounts ==
    /\ \A i \in 1..Len(history) : history[i].amount > 0
    /\ (IsUndo /\ pre.history # << >>) =>
          /\ last.cmd.kind = "Withdraw" =>
                /\ last.inner = "True"
                /\ balance[last.account] = pre.balance[last.account] + last.cmd.amount
          /\ last.inner = "False" => last.cmd.kind = "Deposit"

\* a withdrawal undone on an account that other calls had changed since
C19_Witness ==
    /\ IsUndo
    /\ ~last.after_execute
    /\ last.cmd.kind = "Withdraw"
    /\ last.inner = "True"
    /\ pre.balance[last.account] = 0
    /\ balance[last.account] = last.cmd.amount

\* C20: with commands bound to several accounts in one history,
\* execute_transaction and undo_last_transaction change no balance but that of
\* the account the executed / popped command is bound to, make update calls
\* only on customers attached to that account, and change no observer list.
C20_Frame ==
    (IsExecute \/ IsUndo) =>
        /\ observers = pre.observers
        /\ IF last.cmd = NoCommand
           THEN balance = pre.balance /\ notes = << >>
           ELSE /\ \A b \in Accounts \ {last.cmd.account} :
                      balance[b] = pre.balance[b]
                /\ \A i \in 1..Len(notes) :
                      notes[i].to \in Range(observers[last.cmd.account])

\* a command of C67890 undone from a history that also holds a command of
\* S12345, both accounts with customers attached
C20_Witness ==
    /\ IsUndo
    /\ Len(pre.history) = 2
    /\ pre.history[1].account = "S12345"
    /\ last.cmd.account = "C67890"
    /\ last.inner = "True"
    /\ Len(observers["S12345"]) = 2
    /\ Len(observers["C67890"]) = 1
    /\ Len(notes) = 1
    /\ balance["S12345"] = pre.balance["S12345"]

====
